---- MODULE Spec2Model ----
(***************************************************************************)
(* A model of agent/structs/intention.go: the Intention record, its        *)
(* methods (UpdatePrecedence, SetHash, Validate, CanRead, CanWrite) and    *)
(* the IntentionPrecedenceSorter ordering.                                 *)
(*                                                                         *)
(* Go strings are modelled as sequences of byte values, so that comparison *)
(* (<), concatenation and length are those of the Go runtime:              *)
(*   "*" = <<42>>,  "a" = <<97>>,  "b" = <<98>>,  "" = <<>>.               *)
(***************************************************************************)
EXTENDS Integers, Sequences, FiniteSets, TLC

VARIABLES
    s,       \* the intentions under operation (an Intentions slice)
    t,       \* a second replica's copy of the same collection (arrival order)
    calls,   \* the method calls applied to s[i] since its fields were last assigned
    ret,     \* the return value of the last call that returns one
    writes,  \* per intention, the chunks the last SetHash handed to hash.Write
    ranged,  \* per intention, the order in which the last call ranged over Meta
    edits,   \* how many field or map assignments the caller has made
    heap,    \* the map objects that Meta fields refer to, by address
    reqs     \* the IntentionQueryRequest values under operation

vars == <<s, t, calls, ret, writes, ranged, edits, heap, reqs>>

----------------------------------------------------------------------------
(* Strings *)

\* "*"
WildcardSpecifier == <<42>>

\* "default"
IntentionDefaultNamespace == <<100, 101, 102, 97, 117, 108, 116>>

\* "allow", "deny", "consul"
IntentionActionAllow == <<97, 108, 108, 111, 119>>
IntentionActionDeny == <<100, 101, 110, 121>>
IntentionSourceConsul == <<99, 111, 110, 115, 117, 108>>

StrEmpty == <<>>
StrA == <<97>>
StrB == <<98>>
StrAB == <<97, 98>>
StrBB == <<98, 98>>
\* "a*": a partial wildcard
StrAStar == <<97, 42>>

\* Go's a < b on strings: bytewise lexicographic order
RECURSIVE StrLess(_, _)
StrLess(a, b) ==
    IF b = <<>> THEN FALSE
    ELSE IF a = <<>> THEN TRUE
    ELSE IF Head(a) # Head(b) THEN Head(a) < Head(b)
    ELSE StrLess(Tail(a), Tail(b))

\* strings.Contains(v, sub)
Contains(v, sub) ==
    \E i \in 1..(Len(v) - Len(sub) + 1) : SubSeq(v, i, i + Len(sub) - 1) = sub

\* concatenation of a sequence of byte strings
RECURSIVE Flatten(_)
Flatten(chunks) ==
    IF chunks = <<>> THEN <<>> ELSE Head(chunks) \o Flatten(Tail(chunks))

----------------------------------------------------------------------------
(* The Intention record *)

\* Meta is a Go map: nil or a finite map from keys to values
NilMeta == [isNil |-> TRUE, kv |-> <<>>]
MakeMeta(pairs) ==
    [isNil |-> FALSE,
     kv |-> [k \in {p[1] : p \in pairs} |-> (CHOOSE p \in pairs : p[1] = k)[2]]]
MetaKeys(m) == DOMAIN m.kv

\* the zero value of the struct with the four names, the action and the
\* source type given
NewIntention(id, sns, sn, dns, dn, action) ==
    [ID |-> id, Description |-> StrEmpty,
     SourceNS |-> sns, SourceName |-> sn,
     DestinationNS |-> dns, DestinationName |-> dn,
     SourceType |-> IntentionSourceConsul, Action |-> action,
     Meta |-> NilMeta, Precedence |-> 0,
     DefaultAddr |-> StrEmpty, DefaultPort |-> 0,
     CreatedAt |-> 0, UpdatedAt |-> 0,
     Hash |-> <<>>,
     RaftIndex |-> [CreateIndex |-> 0, ModifyIndex |-> 0]]

----------------------------------------------------------------------------
(* CanRead, CanWrite *)

\* acl.Allow and acl.Deny, the answers of an authorizer
aclAllow == "Allow"
aclDeny == "Deny"

\* an acl.Authorizer argument: nil, or an object answering IntentionRead and
\* IntentionWrite for a name (the context FillAuthzContext fills is left to
\* the authorizer)
NilAuthorizer == [isNil |-> TRUE, IntentionRead |-> <<>>, IntentionWrite |-> <<>>]

\* CanRead asking for read access on both ends
CanReadBothEnds(ixn, authz) ==
    IF authz.isNil THEN TRUE
    ELSE /\ ixn.SourceName # StrEmpty
         /\ authz.IntentionRead[ixn.SourceName] = aclAllow
         /\ ixn.DestinationName # StrEmpty
         /\ authz.IntentionRead[ixn.DestinationName] = aclAllow

CanRead(ixn, authz) ==
    IF authz.isNil THEN TRUE
    ELSE IF ixn.SourceName # StrEmpty
            /\ authz.IntentionRead[ixn.SourceName] = aclAllow THEN TRUE
    ELSE IF ixn.DestinationName # StrEmpty
            /\ authz.IntentionRead[ixn.DestinationName] = aclAllow THEN TRUE
    ELSE FALSE

\* CanWrite without the test for an empty DestinationName
CanWriteAnyName(ixn, authz) ==
    IF authz.isNil THEN TRUE
    ELSE authz.IntentionWrite[ixn.DestinationName] = aclAllow

CanWrite(ixn, authz) ==
    IF authz.isNil THEN TRUE
    ELSE IF ixn.DestinationName = StrEmpty THEN FALSE
    ELSE authz.IntentionWrite[ixn.DestinationName] = aclAllow

DoCanRead(i, authz) ==
    /\ i \in DOMAIN s
    /\ ret' = [call |-> "CanRead", i |-> i, recv |-> s[i], authz |-> authz,
               val |-> CanRead(s[i], authz)]
    /\ calls' = calls \cup {<<"CanRead", i>>}
    /\ UNCHANGED <<s, t, writes, ranged, edits, heap, reqs>>

DoCanWrite(i, authz) ==
    /\ i \in DOMAIN s
    /\ ret' = [call |-> "CanWrite", i |-> i, recv |-> s[i], authz |-> authz,
               val |-> CanWrite(s[i], authz)]
    /\ calls' = calls \cup {<<"CanWrite", i>>}
    /\ UNCHANGED <<s, t, writes, ranged, edits, heap, reqs>>

----------------------------------------------------------------------------
(* UpdatePrecedence *)

countExact(ns, n) ==
    IF ns = WildcardSpecifier THEN 0
    ELSE IF n = WildcardSpecifier THEN 1
    ELSE 2

\* UpdatePrecedence with the maximum for a single exact destination value
\* one too low
PrecedenceOfLowMax(x) ==
    LET d == countExact(x.DestinationNS, x.DestinationName)
        max == CASE d = 2 -> 9
                 [] d = 1 -> 5
                 [] d = 0 -> 3
                 [] OTHER -> -1
        countSrc == countExact(x.SourceNS, x.SourceName)
    IN  IF max = -1 THEN 0 ELSE max - (2 - countSrc)

\* UpdatePrecedence with the roles of source and destination exchanged
PrecedenceOfSourceFirst(x) ==
    LET d == countExact(x.SourceNS, x.SourceName)
        max == CASE d = 2 -> 9
                 [] d = 1 -> 6
                 [] d = 0 -> 3
                 [] OTHER -> -1
        countSrc == countExact(x.DestinationNS, x.DestinationName)
    IN  IF max = -1 THEN 0 ELSE max - (2 - countSrc)

\* UpdatePrecedence taking the source count for a wildcard source name as 2
PrecedenceOfNameIgnored(x) ==
    LET d == countExact(x.DestinationNS, x.DestinationName)
        max == CASE d = 2 -> 9
                 [] d = 1 -> 6
                 [] d = 0 -> 3
                 [] OTHER -> -1
        countSrc == IF x.SourceNS = WildcardSpecifier THEN 0 ELSE 2
    IN  IF max = -1 THEN 0 ELSE max - (2 - countSrc)

\* UpdatePrecedence with the maxima of the destination bands two apart
\* instead of three, so that neighbouring bands overlap
PrecedenceOfNarrowBands(x) ==
    LET d == countExact(x.DestinationNS, x.DestinationName)
        max == CASE d = 2 -> 9
                 [] d = 1 -> 7
                 [] d = 0 -> 5
                 [] OTHER -> -1
        countSrc == countExact(x.SourceNS, x.SourceName)
    IN  IF max = -1 THEN 0 ELSE max - (2 - countSrc)

\* the value UpdatePrecedence stores in x.Precedence
PrecedenceOf(x) ==
    LET d == countExact(x.DestinationNS, x.DestinationName)
        max == CASE d = 2 -> 9
                 [] d = 1 -> 6
                 [] d = 0 -> 3
                 [] OTHER -> -1
        countSrc == countExact(x.SourceNS, x.SourceName)
    IN  IF max = -1 THEN 0 ELSE max - (2 - countSrc)

UpdatePrecedence(i) ==
    /\ i \in DOMAIN s
    /\ s' = [s EXCEPT ![i].Precedence = PrecedenceOf(s[i])]
    /\ calls' = calls \cup {<<"UpdatePrecedence", i>>}
    /\ UNCHANGED <<t, ret, writes, ranged, edits, heap, reqs>>

----------------------------------------------------------------------------
(* Validate *)

\* The three limits are declared outside intention.go; the model gives them
\* small values and builds its over-long inputs relative to them.
metaKeyMaxLength == 2
metaValueMaxLength == 3
metaMaxKeyPairs == 2

\* the errors appended for one Meta entry, in the order of the loop body
MetaEntryErrs(x, k) ==
    (IF Len(k) > metaKeyMaxLength
        THEN <<[msg |-> "Meta key exceeds maximum length", key |-> k]>>
        ELSE <<>>)
    \o (IF Len(x.Meta.kv[k]) > metaValueMaxLength
        THEN <<[msg |-> "Meta value exceeds maximum length", key |-> k]>>
        ELSE <<>>)

RECURSIVE MetaErrs(_, _)
MetaErrs(x, order) ==
    IF order = <<>> THEN <<>>
    ELSE MetaEntryErrs(x, Head(order)) \o MetaErrs(x, Tail(order))

Err(m) == <<[msg |-> m, key |-> StrEmpty]>>

\* "Empty values"
EmptyValueErrs(x) ==
    (IF x.SourceNS = StrEmpty THEN Err("SourceNS must be set") ELSE <<>>)
    \o (IF x.SourceName = StrEmpty THEN Err("SourceName must be set") ELSE <<>>)
    \o (IF x.DestinationNS = StrEmpty
        THEN Err("DestinationNS must be set") ELSE <<>>)
    \o (IF x.DestinationName = StrEmpty
        THEN Err("DestinationName must be set") ELSE <<>>)

\* "Wildcard usage verification"
WildcardErrs(x) ==
    (IF x.SourceNS # WildcardSpecifier
           /\ Contains(x.SourceNS, WildcardSpecifier)
        THEN Err("SourceNS: partial wildcard") ELSE <<>>)
    \o (IF x.SourceName # WildcardSpecifier
           /\ Contains(x.SourceName, WildcardSpecifier)
        THEN Err("SourceName: partial wildcard") ELSE <<>>)
    \o (IF x.SourceName # WildcardSpecifier
           /\ x.SourceNS = WildcardSpecifier
        THEN Err("SourceName: exact value cannot follow wildcard namespace")
        ELSE <<>>)
    \o (IF x.DestinationNS # WildcardSpecifier
           /\ Contains(x.DestinationNS, WildcardSpecifier)
        THEN Err("DestinationNS: partial wildcard") ELSE <<>>)
    \o (IF x.DestinationName # WildcardSpecifier
           /\ Contains(x.DestinationName, WildcardSpecifier)
        THEN Err("DestinationName: partial wildcard") ELSE <<>>)
    \o (IF x.DestinationName # WildcardSpecifier
           /\ x.DestinationNS = WildcardSpecifier
        THEN Err("DestinationName: exact value cannot follow wildcard namespace")
        ELSE <<>>)

\* "Length of opaque values"; order is the order in which the range over
\* x.Meta visits the keys
LengthErrs(x, order) ==
    (IF Len(x.Description) > metaValueMaxLength
        THEN Err("Description exceeds maximum length") ELSE <<>>)
    \o (IF Cardinality(MetaKeys(x.Meta)) > metaMaxKeyPairs
        THEN Err("Meta exceeds maximum element count") ELSE <<>>)
    \o MetaErrs(x, order)

\* the two switch statements
EnumErrs(x) ==
    (IF x.Action \notin {IntentionActionAllow, IntentionActionDeny}
        THEN Err("Action must be set to 'allow' or 'deny'") ELSE <<>>)
    \o (IF x.SourceType # IntentionSourceConsul
        THEN Err("SourceType must be set to 'consul'") ELSE <<>>)

\* Validate returning as soon as one group of checks has failed
ValidateStopsEarly(x, order) ==
    IF EmptyValueErrs(x) # <<>> THEN EmptyValueErrs(x)
    ELSE IF WildcardErrs(x) # <<>> THEN WildcardErrs(x)
    ELSE IF LengthErrs(x, order) # <<>> THEN LengthErrs(x, order)
    ELSE EnumErrs(x)

\* the multierror list Validate returns (<<>> is a nil error)
Validate(x, order) ==
    EmptyValueErrs(x) \o WildcardErrs(x) \o LengthErrs(x, order) \o EnumErrs(x)

\* the orders in which a range over a map with these keys can visit them
RangeOrders(keys) ==
    {o \in [1..Cardinality(keys) -> keys] :
        \A i, j \in DOMAIN o : i # j => o[i] # o[j]}

DoValidate(i) ==
    /\ i \in DOMAIN s
    /\ \E order \in RangeOrders(MetaKeys(s[i].Meta)) :
          /\ ret' = [call |-> "Validate", i |-> i, recv |-> s[i],
                     val |-> Validate(s[i], order)]
          /\ ranged' = [ranged EXCEPT ![i] = order]
    /\ calls' = calls \cup {<<"Validate", i>>}
    /\ UNCHANGED <<s, t, writes, edits, heap, reqs>>

----------------------------------------------------------------------------
(* Precedence of pairs of intentions *)

\* the namespaces and names the precedence runs draw from
PrecNames == {WildcardSpecifier, IntentionDefaultNamespace, StrA}

PrecIntentions ==
    {NewIntention(StrEmpty, sns, sn, dns, dn, IntentionActionAllow) :
        sns \in PrecNames, sn \in PrecNames, dns \in PrecNames, dn \in PrecNames}

InitPrec ==
    /\ s \in [1..2 -> PrecIntentions]
    /\ t = <<>>
    /\ calls = {}
    /\ ret = [call |-> "none"]
    /\ writes = [i \in 1..2 |-> <<>>]
    /\ ranged = [i \in 1..2 |-> <<>>]
    /\ edits = 0
    /\ heap = <<>>
    /\ reqs = <<>>

NextPrec == \E i \in 1..2 : UpdatePrecedence(i)

SpecPrec == InitPrec /\ [][NextPrec]_vars

(* The vocabulary of the claims: exactness of a (namespace, name) tuple *)

IsExact(v) == v # WildcardSpecifier

\* (exact, exact), (exact, "*") or ("*", "*")
LegalTuple(ns, n) == IsExact(ns) \/ ~IsExact(n)

LegalTuples(x) ==
    /\ LegalTuple(x.SourceNS, x.SourceName)
    /\ LegalTuple(x.DestinationNS, x.DestinationName)

\* the number of exact parts of a tuple
Exactness(ns, n) == (IF IsExact(ns) THEN 1 ELSE 0) + (IF IsExact(n) THEN 1 ELSE 0)

SrcExact(x) == Exactness(x.SourceNS, x.SourceName)
DestExact(x) == Exactness(x.DestinationNS, x.DestinationName)

Updated(i) == <<"UpdatePrecedence", i>> \in calls

\* C1: after UpdatePrecedence an intention with legal tuples has
\* Precedence = base - (2 - srcExact), base being 9, 6, 3 for destination
\* exactness 2, 1, 0; the value lies in 1..9; two such intentions have the same
\* Precedence exactly when they have the same (srcExact, destExact) pattern,
\* whatever their literal namespaces and names.
C1_PrecedenceByExactness ==
    /\ \A i \in DOMAIN s :
          (Updated(i) /\ LegalTuples(s[i])) =>
             LET base == CASE DestExact(s[i]) = 2 -> 9
                           [] DestExact(s[i]) = 1 -> 6
                           [] DestExact(s[i]) = 0 -> 3
             IN  /\ s[i].Precedence = base - (2 - SrcExact(s[i]))
                 /\ s[i].Precedence \in 1..9
    /\ \A i, j \in DOMAIN s :
          (Updated(i) /\ Updated(j) /\ LegalTuples(s[i]) /\ LegalTuples(s[j])) =>
             ((s[i].Precedence = s[j].Precedence)
                <=> (SrcExact(s[i]) = SrcExact(s[j])
                       /\ DestExact(s[i]) = DestExact(s[j])))

\* two updated intentions of the same pattern with different literal names
C1_Witness ==
    /\ Updated(1) /\ Updated(2)
    /\ LegalTuples(s[1]) /\ LegalTuples(s[2])
    /\ s[1].SourceNS = IntentionDefaultNamespace /\ s[2].SourceNS = StrA
    /\ s[1].SourceName = WildcardSpecifier /\ s[2].SourceName = WildcardSpecifier
    /\ s[1].DestinationName = StrA
    /\ s[2].DestinationName = IntentionDefaultNamespace
    /\ IsExact(s[1].DestinationNS) /\ IsExact(s[2].DestinationNS)
    /\ s[1].Precedence = 8 /\ s[2].Precedence = 8

Validated(x) == Validate(x, <<>>) = <<>>

\* C3: of two validated intentions after UpdatePrecedence, the one with the
\* higher destination exactness has the strictly higher Precedence whatever
\* the two sources are (so destination (ns, name) outranks (ns, "*")), and
\* with equal destination exactness the one with the higher source exactness
\* has the strictly higher Precedence.
C3_DestinationOutranksSource ==
    \A i, j \in DOMAIN s :
       (Updated(i) /\ Updated(j) /\ Validated(s[i]) /\ Validated(s[j])) =>
          /\ (DestExact(s[i]) > DestExact(s[j]))
                => (s[i].Precedence > s[j].Precedence)
          /\ (DestExact(s[i]) = DestExact(s[j]) /\ SrcExact(s[i]) > SrcExact(s[j]))
                => (s[i].Precedence > s[j].Precedence)

\* destination (ns, name) from any source against destination (ns, "*")
\* from an exact source
C3_Witness ==
    /\ Updated(1) /\ Updated(2)
    /\ Validated(s[1]) /\ Validated(s[2])
    /\ s[1].DestinationNS = StrA /\ s[1].DestinationName = StrA
    /\ s[2].DestinationNS = StrA /\ s[2].DestinationName = WildcardSpecifier
    /\ SrcExact(s[1]) = 0 /\ SrcExact(s[2]) = 2
    /\ s[1].Precedence = 7 /\ s[2].Precedence = 6

IsDefaultStarToDefaultStar(x) ==
    /\ x.SourceNS = IntentionDefaultNamespace
    /\ x.SourceName = WildcardSpecifier
    /\ x.DestinationNS = IntentionDefaultNamespace
    /\ x.DestinationName = WildcardSpecifier

\* C4 as claimed: source (default, "*") and destination (default, "*") get
\* Precedence 3 from UpdatePrecedence.
C4_Original ==
    \A i \in DOMAIN s :
       (Updated(i) /\ IsDefaultStarToDefaultStar(s[i])) => s[i].Precedence = 3

\* C4 as amended: source (default, "*") and destination (default, "*") get
\* Precedence 5 from UpdatePrecedence (maximum 6 for one exact destination
\* value, less 1 for one exact source value).
C4_DefaultStarIsFive ==
    \A i \in DOMAIN s :
       (Updated(i) /\ IsDefaultStarToDefaultStar(s[i])) => s[i].Precedence = 5

C4_Witness ==
    /\ Updated(1)
    /\ IsDefaultStarToDefaultStar(s[1])
    /\ s[1].Precedence = 5

----------------------------------------------------------------------------
(* Validation of one intention *)

\* a string of n bytes 'b'
Rep(n) == [i \in 1..n |-> 98]

\* "", "*", "a", "a*"
ValNames == {StrEmpty, WildcardSpecifier, StrA, StrAStar}

\* nil; one entry at the limits; a key too long; a value too long; a key too
\* long beside a value too long; one entry too many (keys "a", "b", ...)
ValMetas ==
    {NilMeta,
     MakeMeta({<<Rep(metaKeyMaxLength), Rep(metaValueMaxLength)>>}),
     MakeMeta({<<Rep(metaKeyMaxLength + 1), StrB>>}),
     MakeMeta({<<StrA, Rep(metaValueMaxLength + 1)>>}),
     MakeMeta({<<Rep(metaKeyMaxLength + 1), StrB>>,
               <<StrA, Rep(metaValueMaxLength + 1)>>}),
     MakeMeta({<< <<96 + i>>, StrB >> : i \in 1..(metaMaxKeyPairs + 1)})}

ValIntentions ==
    {[NewIntention(StrEmpty, sns, sn, dns, dn, action)
        EXCEPT !.Description = d, !.Meta = m, !.SourceType = st] :
        sns \in ValNames, sn \in ValNames, dns \in ValNames, dn \in ValNames,
        action \in {IntentionActionAllow, IntentionActionDeny, StrEmpty},
        d \in {Rep(metaValueMaxLength), Rep(metaValueMaxLength + 1)},
        m \in ValMetas,
        st \in {IntentionSourceConsul, StrEmpty}}

InitValidate ==
    /\ s \in [1..1 -> ValIntentions]
    /\ t = <<>>
    /\ calls = {}
    /\ ret = [call |-> "none"]
    /\ writes = [i \in 1..1 |-> <<>>]
    /\ ranged = [i \in 1..1 |-> <<>>]
    /\ edits = 0
    /\ heap = <<>>
    /\ reqs = <<>>

NextValidate == DoValidate(1)

SpecValidate == InitValidate /\ [][NextValidate]_vars

(* The seven rules in the words of the specification *)

NameFields(x) == {x.SourceNS, x.SourceName, x.DestinationNS, x.DestinationName}

\* the wildcard character occurs in v without v being the wildcard itself
PartialWildcard(v) ==
    /\ v # WildcardSpecifier
    /\ \E i \in DOMAIN v : <<v[i]>> = WildcardSpecifier

Rule1(x) == \A v \in NameFields(x) : v # StrEmpty
Rule2(x) == \A v \in NameFields(x) : ~PartialWildcard(v)
Rule3(x) ==
    /\ ~(x.SourceName # WildcardSpecifier /\ x.SourceNS = WildcardSpecifier)
    /\ ~(x.DestinationName # WildcardSpecifier
           /\ x.DestinationNS = WildcardSpecifier)
Rule4(x) == Len(x.Description) <= metaValueMaxLength
Rule5(x) ==
    /\ Cardinality(DOMAIN x.Meta.kv) <= metaMaxKeyPairs
    /\ \A k \in DOMAIN x.Meta.kv :
          Len(k) <= metaKeyMaxLength /\ Len(x.Meta.kv[k]) <= metaValueMaxLength
Rule6(x) == x.Action \in {IntentionActionAllow, IntentionActionDeny}
Rule7(x) == x.SourceType = IntentionSourceConsul

AllRules(x) ==
    Rule1(x) /\ Rule2(x) /\ Rule3(x) /\ Rule4(x) /\ Rule5(x) /\ Rule6(x) /\ Rule7(x)

\* the entries a list of errors must hold for x: one for every violated check
Required(x) ==
    {e \in {[msg |-> "SourceNS must be set", key |-> StrEmpty]} :
        x.SourceNS = StrEmpty}
    \cup {e \in {[msg |-> "SourceName must be set", key |-> StrEmpty]} :
        x.SourceName = StrEmpty}
    \cup {e \in {[msg |-> "DestinationNS must be set", key |-> StrEmpty]} :
        x.DestinationNS = StrEmpty}
    \cup {e \in {[msg |-> "DestinationName must be set", key |-> StrEmpty]} :
        x.DestinationName = StrEmpty}
    \cup {e \in {[msg |-> "SourceNS: partial wildcard", key |-> StrEmpty]} :
        PartialWildcard(x.SourceNS)}
    \cup {e \in {[msg |-> "SourceName: partial wildcard", key |-> StrEmpty]} :
        PartialWildcard(x.SourceName)}
    \cup {e \in {[msg |-> "DestinationNS: partial wildcard", key |-> StrEmpty]} :
        PartialWildcard(x.DestinationNS)}
    \cup {e \in {[msg |-> "DestinationName: partial wildcard", key |-> StrEmpty]} :
        PartialWildcard(x.DestinationName)}
    \cup {e \in {[msg |-> "SourceName: exact value cannot follow wildcard namespace",
                  key |-> StrEmpty]} :
        x.SourceName # WildcardSpecifier /\ x.SourceNS = WildcardSpecifier}
    \cup {e \in {[msg |-> "DestinationName: exact value cannot follow wildcard namespace",
                  key |-> StrEmpty]} :
        x.DestinationName # WildcardSpecifier
           /\ x.DestinationNS = WildcardSpecifier}
    \cup {e \in {[msg |-> "Description exceeds maximum length", key |-> StrEmpty]} :
        ~Rule4(x)}
    \cup {e \in {[msg |-> "Meta exceeds maximum element count", key |-> StrEmpty]} :
        Cardinality(DOMAIN x.Meta.kv) > metaMaxKeyPairs}
    \cup {[msg |-> "Meta key exceeds maximum length", key |-> k] :
        k \in {k \in DOMAIN x.Meta.kv : Len(k) > metaKeyMaxLength}}
    \cup {[msg |-> "Meta value exceeds maximum length", key |-> k] :
        k \in {k \in DOMAIN x.Meta.kv : Len(x.Meta.kv[k]) > metaValueMaxLength}}
    \cup {e \in {[msg |-> "Action must be set to 'allow' or 'deny'",
                  key |-> StrEmpty]} : ~Rule6(x)}
    \cup {e \in {[msg |-> "SourceType must be set to 'consul'", key |-> StrEmpty]} :
        ~Rule7(x)}

Entries(errs) == {errs[i] : i \in DOMAIN errs}

\* C8: Validate returns nil exactly when the seven rules hold; otherwise the
\* error it returns holds an entry for every violated check, whatever else has
\* failed before it; and the call leaves the intention as it was.
C8_ValidateAggregates ==
    ret.call = "Validate" =>
       /\ (ret.val = <<>>) <=> AllRules(ret.recv)
       /\ Required(ret.recv) \subseteq Entries(ret.val)
       /\ s[ret.i] = ret.recv

\* a call on an intention that breaks a rule of every group at once
C8_Witness ==
    /\ ret.call = "Validate"
    /\ ~Rule1(ret.recv) /\ ~Rule2(ret.recv) /\ ~Rule3(ret.recv) /\ ~Rule4(ret.recv)
    /\ ~Rule5(ret.recv) /\ ~Rule6(ret.recv) /\ ~Rule7(ret.recv)
    /\ Cardinality(Required(ret.recv)) >= 7
    /\ Len(ret.val) >= 7

\* a call that succeeds
C8_WitnessSuccess ==
    /\ ret.call = "Validate"
    /\ ret.val = <<>>
    /\ ret.recv.SourceName = WildcardSpecifier

----------------------------------------------------------------------------
(* Access checks on one intention *)

\* "", "a", "b"
AclNames == {StrEmpty, StrA, StrB}

Authorizers ==
    {NilAuthorizer}
    \cup [isNil : {FALSE},
          IntentionRead : [AclNames -> {aclAllow, aclDeny}],
          IntentionWrite : [AclNames -> {aclAllow, aclDeny}]]

AclIntentions ==
    {NewIntention(StrEmpty, IntentionDefaultNamespace, sn,
                  IntentionDefaultNamespace, dn, IntentionActionAllow) :
        sn \in AclNames, dn \in AclNames}

InitAcl ==
    /\ s \in [1..1 -> AclIntentions]
    /\ t = <<>>
    /\ calls = {}
    /\ ret = [call |-> "none"]
    /\ writes = [i \in 1..1 |-> <<>>]
    /\ ranged = [i \in 1..1 |-> <<>>]
    /\ edits = 0
    /\ heap = <<>>
    /\ reqs = <<>>

NextAcl ==
    \/ \E authz \in Authorizers : DoCanRead(1, authz)
    \/ \E authz \in Authorizers : DoCanWrite(1, authz)

SpecAcl == InitAcl /\ [][NextAcl]_vars

\* the authorizers that give one answer to every question
AlwaysAllow ==
    [isNil |-> FALSE,
     IntentionRead |-> [n \in AclNames |-> aclAllow],
     IntentionWrite |-> [n \in AclNames |-> aclAllow]]
AlwaysDeny ==
    [isNil |-> FALSE,
     IntentionRead |-> [n \in AclNames |-> aclDeny],
     IntentionWrite |-> [n \in AclNames |-> aclDeny]]

\* C9 as claimed: CanWrite returns false whenever DestinationName is empty,
\* for every authorizer argument, nil included; for a non-empty
\* DestinationName and a non-nil authorizer it returns true exactly when
\* IntentionWrite(DestinationName) is Allow.
C9_Original ==
    ret.call = "CanWrite" =>
       /\ (ret.recv.DestinationName = StrEmpty) => (ret.val = FALSE)
       /\ (ret.recv.DestinationName # StrEmpty /\ ~ret.authz.isNil) =>
             (ret.val <=>
                ret.authz.IntentionWrite[ret.recv.DestinationName] = aclAllow)

\* C9 as amended: CanWrite returns true for a nil authorizer; for every
\* non-nil authorizer it returns false whenever DestinationName is empty, and
\* for a non-empty DestinationName it returns true exactly when
\* IntentionWrite(DestinationName) is Allow.
C9_CanWriteNonNil ==
    ret.call = "CanWrite" =>
       /\ ret.authz.isNil => (ret.val = TRUE)
       /\ (~ret.authz.isNil /\ ret.recv.DestinationName = StrEmpty) =>
             (ret.val = FALSE)
       /\ (~ret.authz.isNil /\ ret.recv.DestinationName # StrEmpty) =>
             (ret.val <=>
                ret.authz.IntentionWrite[ret.recv.DestinationName] = aclAllow)

\* an authorizer that allows everything refuses an empty DestinationName
C9_Witness ==
    /\ ret.call = "CanWrite"
    /\ ret.authz = AlwaysAllow
    /\ ret.recv.DestinationName = StrEmpty
    /\ ret.val = FALSE

\* C10: CanRead returns true for a nil authorizer; for a non-nil authorizer it
\* returns true if and only if SourceName is non-empty and
\* IntentionRead(SourceName) is Allow, or DestinationName is non-empty and
\* IntentionRead(DestinationName) is Allow.
C10_CanReadEitherEnd ==
    ret.call = "CanRead" =>
       /\ ret.authz.isNil => (ret.val = TRUE)
       /\ ~ret.authz.isNil =>
             (ret.val <=>
                \E n \in {ret.recv.SourceName, ret.recv.DestinationName} :
                   n # StrEmpty /\ ret.authz.IntentionRead[n] = aclAllow)
       /\ (ret.authz = AlwaysDeny) => (ret.val = FALSE)

\* read access on the destination alone is enough
C10_Witness ==
    /\ ret.call = "CanRead"
    /\ ~ret.authz.isNil
    /\ ret.recv.SourceName = StrA /\ ret.recv.DestinationName = StrB
    /\ ret.authz.IntentionRead[StrA] = aclDeny
    /\ ret.authz.IntentionRead[StrB] = aclAllow
    /\ ret.val = TRUE

----------------------------------------------------------------------------
(* SetHash *)

\* byte i (1 the lowest) of uint64(n) for a Go int n
Uint64Byte(n, i) ==
    LET low(m) == IF i <= 4 THEN (m \div (256 ^ (i - 1))) % 256 ELSE 0
    IN  IF n >= 0 THEN low(n) ELSE 255 - low(-n - 1)

\* binary.Write(hash, binary.LittleEndian, uint64(n))
LittleEndianUint64(n) == [i \in 1..8 |-> Uint64Byte(n, i)]

\* sort.Strings: the insertion sort the library runs on a short slice
RECURSIVE InsertString(_, _)
InsertString(sorted, k) ==
    IF sorted = <<>> THEN <<k>>
    ELSE IF StrLess(k, sorted[Len(sorted)])
         THEN InsertString(SubSeq(sorted, 1, Len(sorted) - 1), k)
                 \o <<sorted[Len(sorted)]>>
         ELSE sorted \o <<k>>

RECURSIVE SortFirstStrings(_, _)
SortFirstStrings(keys, n) ==
    IF n = 0 THEN <<>> ELSE InsertString(SortFirstStrings(keys, n - 1), keys[n])

\* SetHash leaving the keys in the order the range produced them
KeysAsRanged(keys) == keys

SortStrings(keys) == SortFirstStrings(keys, Len(keys))

\* the two calls of hash.Write per key of the final loop
RECURSIVE MetaWrites(_, _)
MetaWrites(x, keys) ==
    IF keys = <<>> THEN <<>>
    ELSE <<Head(keys), x.Meta.kv[Head(keys)]>> \o MetaWrites(x, Tail(keys))

\* the sequence of chunks SetHash writes to the hash; order is the order in
\* which the range over x.Meta appended the keys
HashWrites(x, order) ==
    <<x.ID, x.Description, x.SourceNS, x.SourceName,
      x.DestinationNS, x.DestinationName, x.SourceType, x.Action,
      LittleEndianUint64(x.Precedence)>>
    \o MetaWrites(x, SortStrings(order))

\* hash.Sum(nil) of blake2b-256 after the bytes data were written: the digest
\* is taken to be injective and is represented by the bytes it was fed
Sum256(data) == <<data>>

SetHash(i) ==
    /\ i \in DOMAIN s
    /\ \E order \in RangeOrders(MetaKeys(s[i].Meta)) :
          /\ writes' = [writes EXCEPT ![i] = HashWrites(s[i], order)]
          /\ ranged' = [ranged EXCEPT ![i] = order]
          /\ s' = [s EXCEPT ![i].Hash = Sum256(Flatten(HashWrites(s[i], order)))]
    /\ calls' = calls \cup {<<"SetHash", i>>}
    /\ UNCHANGED <<t, ret, edits, heap, reqs>>

----------------------------------------------------------------------------
(* Hashing two intentions whose fields a caller assigns *)

\* the number of field assignments a run makes
MaxEdits == 2

\* a digest left in the Hash field by an earlier call
StaleHash == Sum256(StrAB)

\* the values a caller assigns, per field
FieldValues ==
    [ID |-> {StrA, StrAB},
     Description |-> {StrEmpty, StrB},
     SourceNS |-> {StrA, StrAB},
     SourceName |-> {StrB, StrBB},
     DestinationNS |-> {StrA, StrB},
     DestinationName |-> {StrA, StrB},
     SourceType |-> {IntentionSourceConsul, StrEmpty},
     Action |-> {IntentionActionAllow, IntentionActionDeny},
     Meta |-> {NilMeta,
               MakeMeta({<<StrA, StrB>>}),
               MakeMeta({<<StrA, StrB>>, <<StrB, StrA>>}),
               MakeMeta({<<StrA, StrA>>, <<StrB, StrA>>})},
     Precedence |-> {9, 8, 265},
     CreatedAt |-> {0, 1},
     UpdatedAt |-> {0, 1},
     Hash |-> {<<>>, StaleHash},
     RaftIndex |-> {[CreateIndex |-> 0, ModifyIndex |-> 0],
                    [CreateIndex |-> 1, ModifyIndex |-> 2]}]

\* a caller assigns one field of s[i]; the records of the calls made on the
\* old fields are dropped
Assign(i, f, v) ==
    /\ i \in DOMAIN s
    /\ edits < MaxEdits
    /\ s[i][f] # v
    /\ s' = [s EXCEPT ![i][f] = v]
    /\ edits' = edits + 1
    /\ calls' = {c \in calls : c[2] # i}
    /\ writes' = [writes EXCEPT ![i] = <<>>]
    /\ ranged' = [ranged EXCEPT ![i] = <<>>]
    /\ UNCHANGED <<t, ret, heap, reqs>>

HashBase ==
    [NewIntention(StrA, StrA, StrB, StrA, StrB, IntentionActionAllow)
        EXCEPT !.Description = StrB, !.Precedence = 9]

InitHash ==
    /\ s \in [1..2 -> {[HashBase EXCEPT !.Meta = m] : m \in FieldValues.Meta}]
    /\ s[1] = s[2]
    /\ t = <<>>
    /\ calls = {}
    /\ ret = [call |-> "none"]
    /\ writes = [i \in 1..2 |-> <<>>]
    /\ ranged = [i \in 1..2 |-> <<>>]
    /\ edits = 0
    /\ heap = <<>>
    /\ reqs = <<>>

NextHash ==
    \/ \E i \in 1..2 : SetHash(i)
    \/ \E i \in 1..2 : \E f \in DOMAIN FieldValues : \E v \in FieldValues[f] :
          Assign(i, f, v)

SpecHash == InitHash /\ [][NextHash]_vars

Hashed(i) == <<"SetHash", i>> \in calls

\* the fields the claims name as hashed, Meta apart
HashedFields ==
    {"ID", "Description", "SourceNS", "SourceName", "DestinationNS",
     "DestinationName", "SourceType", "Action", "Precedence"}

\* x and y agree on every hashed field; they agree on Meta when they hold the
\* same key/value pairs
SameContent(x, y) ==
    /\ \A f \in HashedFields : x[f] = y[f]
    /\ x.Meta.kv = y.Meta.kv

\* C6 as claimed: with an injective digest, two intentions have the same Hash
\* after SetHash if and only if they agree on ID, Description, SourceNS,
\* SourceName, DestinationNS, DestinationName, SourceType, Action, Precedence
\* and Meta.
C6_Original ==
    \A i, j \in DOMAIN s :
       (Hashed(i) /\ Hashed(j)) =>
          ((s[i].Hash = s[j].Hash) <=> SameContent(s[i], s[j]))

\* the half of C6 that the code keeps: intentions that differ at most in
\* CreatedAt, UpdatedAt, RaftIndex and the Hash they held before get the
\* same Hash
C6_UnhashedFieldsIgnored ==
    \A i, j \in DOMAIN s :
       (Hashed(i) /\ Hashed(j) /\ SameContent(s[i], s[j])) =>
          s[i].Hash = s[j].Hash

\* two intentions that differ in hashed fields and carry the same Hash
C6_Collision ==
    /\ Hashed(1) /\ Hashed(2)
    /\ ~SameContent(s[1], s[2])
    /\ s[1].Hash = s[2].Hash

\* the chunks written after the nine fixed ones
MetaPart(i) == SubSeq(writes[i], 10, Len(writes[i]))

\* C7: SetHash writes the Meta entries in ascending key order, each value
\* right after its key, whatever order the map was ranged over in; so two
\* intentions that agree on all hashed fields and hold the same Meta pairs
\* get identical hashes.
C7_MetaOrderIndependent ==
    /\ \A i \in DOMAIN s :
          Hashed(i) =>
             LET m == MetaPart(i)
                 keys == DOMAIN s[i].Meta.kv
             IN  /\ Len(m) = 2 * Cardinality(keys)
                 /\ \A n \in 1..Cardinality(keys) :
                       /\ m[2 * n - 1] \in keys
                       /\ m[2 * n] = s[i].Meta.kv[m[2 * n - 1]]
                       /\ n > 1 => StrLess(m[2 * n - 3], m[2 * n - 1])
    /\ \A i, j \in DOMAIN s :
          (Hashed(i) /\ Hashed(j) /\ SameContent(s[i], s[j])) =>
             s[i].Hash = s[j].Hash

\* the same two Meta entries, ranged over in opposite orders
C7_Witness ==
    /\ Hashed(1) /\ Hashed(2)
    /\ SameContent(s[1], s[2])
    /\ Len(ranged[1]) = 2
    /\ ranged[1] # ranged[2]
    /\ s[1].Hash = s[2].Hash
    /\ s[1].Hash # <<>>

----------------------------------------------------------------------------
(* IntentionPrecedenceSorter *)

\* Less comparing Precedence the wrong way round
LessAscendingPrecedence(a, b) ==
    IF a.Precedence # b.Precedence THEN a.Precedence < b.Precedence
    ELSE IF a.SourceNS # b.SourceNS THEN StrLess(a.SourceNS, b.SourceNS)
    ELSE IF a.SourceName # b.SourceName THEN StrLess(a.SourceName, b.SourceName)
    ELSE IF a.DestinationNS # b.DestinationNS
         THEN StrLess(a.DestinationNS, b.DestinationNS)
    ELSE StrLess(a.DestinationName, b.DestinationName)

\* Less without the tie break
LessPrecedenceOnly(a, b) == a.Precedence > b.Precedence

\* Less(i, j) for a = s[i], b = s[j]
Less(a, b) ==
    IF a.Precedence # b.Precedence THEN a.Precedence > b.Precedence
    ELSE IF a.SourceNS # b.SourceNS THEN StrLess(a.SourceNS, b.SourceNS)
    ELSE IF a.SourceName # b.SourceName THEN StrLess(a.SourceName, b.SourceName)
    ELSE IF a.DestinationNS # b.DestinationNS
         THEN StrLess(a.DestinationNS, b.DestinationNS)
    ELSE StrLess(a.DestinationName, b.DestinationName)

\* sort.Sort(IntentionPrecedenceSorter(list)): on a slice this short the
\* library runs an insertion sort, moving list[i] towards the head by Swap
\* while Less(j, j-1)
RECURSIVE InsertIntention(_, _)
InsertIntention(sorted, x) ==
    IF sorted = <<>> THEN <<x>>
    ELSE IF Less(x, sorted[Len(sorted)])
         THEN InsertIntention(SubSeq(sorted, 1, Len(sorted) - 1), x)
                 \o <<sorted[Len(sorted)]>>
         ELSE sorted \o <<x>>

RECURSIVE SortFirst(_, _)
SortFirst(list, n) ==
    IF n = 0 THEN <<>> ELSE InsertIntention(SortFirst(list, n - 1), list[n])

Sort(list) == SortFirst(list, Len(list))

\* replica 1 sorts s, replica 2 sorts t, each in place
SortReplica(i) ==
    /\ i \in {1, 2}
    /\ s' = IF i = 1 THEN Sort(s) ELSE s
    /\ t' = IF i = 2 THEN Sort(t) ELSE t
    /\ calls' = calls \cup {<<"Sort", i, IF i = 1 THEN s ELSE t>>}
    /\ UNCHANGED <<ret, writes, ranged, edits, heap, reqs>>

----------------------------------------------------------------------------
(* Two replicas sorting the same collection *)

\* the longest list of intentions
MaxLen == 3

\* (source namespace, source name, destination namespace, destination name)
SortTuples ==
    {<<IntentionDefaultNamespace, StrA, IntentionDefaultNamespace, StrB>>,
     <<IntentionDefaultNamespace, StrB, IntentionDefaultNamespace, StrB>>,
     <<IntentionDefaultNamespace, StrA, IntentionDefaultNamespace,
       WildcardSpecifier>>,
     <<WildcardSpecifier, WildcardSpecifier, WildcardSpecifier,
       WildcardSpecifier>>}

\* an intention as the store holds it: with the Precedence that
\* UpdatePrecedence assigns
Stored(id, tuple, action) ==
    LET x == NewIntention(id, tuple[1], tuple[2], tuple[3], tuple[4], action)
    IN  [x EXCEPT !.Precedence = PrecedenceOf(x)]

\* the ID of the n-th record: "a", "b", ...
IdOf(n) == <<96 + n>>

\* lists of up to MaxLen records with distinct IDs
Collections(actions) ==
    UNION {{[n \in 1..len |-> Stored(IdOf(n), tu[n], ac[n])] :
              tu \in [1..len -> SortTuples], ac \in [1..len -> actions]} :
           len \in 0..MaxLen}

Permutation(list, p) == [n \in DOMAIN list |-> list[p[n]]]

Orders(list) ==
    {Permutation(list, p) :
        p \in {q \in [DOMAIN list -> DOMAIN list] :
                 \A m, n \in DOMAIN list : m # n => q[m] # q[n]}}

InitSort ==
    /\ s \in Collections({IntentionActionAllow})
    /\ t \in Orders(s)
    /\ calls = {}
    /\ ret = [call |-> "none"]
    /\ writes = <<>>
    /\ ranged = <<>>
    /\ edits = 0
    /\ heap = <<>>
    /\ reqs = <<>>

NextSort == \E i \in {1, 2} : SortReplica(i)

SpecSort == InitSort /\ [][NextSort]_vars

SortedBy(i) == \E c \in calls : c[1] = "Sort" /\ c[2] = i

FourTuple(x) == <<x.SourceNS, x.SourceName, x.DestinationNS, x.DestinationName>>

DistinctTuples(list) ==
    \A m, n \in DOMAIN list : m # n => FourTuple(list[m]) # FourTuple(list[n])

\* C5 as claimed: for every collection of records with distinct IDs, the two
\* replicas hold the identical sequence once each has sorted its own arrival
\* order.
C5_Original == (SortedBy(1) /\ SortedBy(2)) => s = t

\* C5 as amended: for every collection of records whose 4-tuples (SourceNS,
\* SourceName, DestinationNS, DestinationName) are pairwise distinct, the two
\* replicas hold the identical sequence once each has sorted its own arrival
\* order, and that sequence is in descending order of Precedence.
C5_DistinctTuplesSortAlike ==
    (SortedBy(1) /\ SortedBy(2) /\ DistinctTuples(s)) =>
       /\ s = t
       /\ \A n \in 1..(Len(s) - 1) : s[n].Precedence >= s[n + 1].Precedence

\* two different arrival orders of three records, two of them of equal
\* Precedence, sorted into one sequence
C5_Witness ==
    /\ \E c, d \in calls :
          /\ c[1] = "Sort" /\ c[2] = 1
          /\ d[1] = "Sort" /\ d[2] = 2
          /\ c[3] # d[3]
          /\ c[3] # s
          /\ d[3] # s
    /\ DistinctTuples(s)
    /\ Len(s) = 3
    /\ s[1].Precedence = s[2].Precedence
    /\ s = t

----------------------------------------------------------------------------
(* The check query over a snapshot of the intention set *)

\* one side of an intention applies to an exact query tuple: it is the tuple,
\* or (same namespace, "*"), or ("*", "*")
SideMatches(ns, n, qns, qn) ==
    \/ ns = qns /\ n = qn
    \/ ns = qns /\ n = WildcardSpecifier
    \/ ns = WildcardSpecifier /\ n = WildcardSpecifier

\* q is an IntentionQueryCheck
Matches(x, q) ==
    /\ SideMatches(x.SourceNS, x.SourceName, q.SourceNS, q.SourceName)
    /\ SideMatches(x.DestinationNS, x.DestinationName,
                   q.DestinationNS, q.DestinationName)

Matching(list, q) ==
    LET Applies(x) == Matches(x, q) IN SelectSeq(list, Applies)

\* the decision: the matching intentions are put in precedence order and the
\* first one decides; with none, the configured default decides
DoCheck(q, defaultAllow) ==
    /\ LET matched == Sort(Matching(s, q))
       IN  ret' = [call |-> "Check", query |-> q, defaultAllow |-> defaultAllow,
                   matched |-> matched,
                   val |-> IF matched = <<>> THEN defaultAllow
                           ELSE matched[1].Action = IntentionActionAllow]
    /\ calls' = calls \cup {<<"Check", 1>>}
    /\ UNCHANGED <<s, t, writes, ranged, edits, heap, reqs>>

\* exact queries: a to b, b to b, b to a, all in the default namespace
CheckQueries ==
    {[SourceNS |-> IntentionDefaultNamespace, SourceName |-> sn,
      DestinationNS |-> IntentionDefaultNamespace, DestinationName |-> dn,
      SourceType |-> IntentionSourceConsul] :
        sn \in {StrA, StrB}, dn \in {StrA, StrB}}
    \ {[SourceNS |-> IntentionDefaultNamespace, SourceName |-> StrA,
        DestinationNS |-> IntentionDefaultNamespace, DestinationName |-> StrA,
        SourceType |-> IntentionSourceConsul]}

InitCheck ==
    /\ s \in Collections({IntentionActionAllow, IntentionActionDeny})
    /\ t = <<>>
    /\ calls = {}
    /\ ret = [call |-> "none"]
    /\ writes = <<>>
    /\ ranged = <<>>
    /\ edits = 0
    /\ heap = <<>>
    /\ reqs = <<>>

NextCheck == \E q \in CheckQueries : \E d \in BOOLEAN : DoCheck(q, d)

SpecCheck == InitCheck /\ [][NextCheck]_vars

\* the intentions of the snapshot that match the query of the last check
MatchSet == {s[n] : n \in {m \in DOMAIN s : Matches(s[m], ret.query)}}

\* C2: when the intentions matching an exact check query are ordered with
\* IntentionPrecedenceSorter, the one at index 0 is a matching intention whose
\* Precedence is at least that of every other matching intention, and its
\* Action is the decision; so when every matching intention of the highest
\* Precedence allows (a deny of precedence 6 under an allow of precedence 9),
\* the decision is Allow; with no matching intention the decision is the
\* configured default.
C2_HighestPrecedenceDecides ==
    ret.call = "Check" =>
       /\ MatchSet = {} => (ret.matched = <<>> /\ ret.val = ret.defaultAllow)
       /\ MatchSet # {} =>
             /\ ret.matched # <<>>
             /\ ret.matched[1] \in MatchSet
             /\ \A x \in MatchSet : ret.matched[1].Precedence >= x.Precedence
             /\ ret.val = (ret.matched[1].Action = IntentionActionAllow)
             /\ (\A x \in MatchSet :
                    (\A y \in MatchSet : x.Precedence >= y.Precedence)
                       => x.Action = IntentionActionAllow)
                   => ret.val = TRUE

\* a deny on destination (default, "*") of precedence 6 that arrived before an
\* allow on destination (default, b) of precedence 9: the query a to b is
\* allowed although the default denies
C2_Witness ==
    /\ ret.call = "Check"
    /\ ret.defaultAllow = FALSE
    /\ Len(s) = 2
    /\ s[1].DestinationName = WildcardSpecifier
    /\ s[1].Action = IntentionActionDeny /\ s[1].Precedence = 6
    /\ s[2].DestinationName = StrB
    /\ s[2].Action = IntentionActionAllow /\ s[2].Precedence = 9
    /\ MatchSet = {s[1], s[2]}
    /\ ret.val = TRUE

----------------------------------------------------------------------------
(* Clone *)

\* In the runs with Clone a Meta field is a reference: nil, or the address of
\* a map object in heap; two intentions with the same address share the map.
NilMetaRef == [isNil |-> TRUE, ref |-> 0]
MetaRef(a) == [isNil |-> FALSE, ref |-> a]

\* the map a Meta field of x refers to, as a value, in heap h
MetaValueIn(x, h) ==
    IF x.Meta.isNil THEN NilMeta ELSE [isNil |-> FALSE, kv |-> h[x.Meta.ref]]

\* Clone copying the struct alone, the map shared with the original
ClonedSharingMeta(x, a) == [x EXCEPT !.Hash = <<>>]

\* Clone without t2.Hash = nil
ClonedKeepingHash(x, a) ==
    [x EXCEPT !.Meta = IF x.Meta.isNil THEN x.Meta ELSE MetaRef(a)]

\* t2 as Clone returns it; a is the address of the map made for it
Cloned(x, a) ==
    [x EXCEPT !.Meta = IF x.Meta.isNil THEN x.Meta ELSE MetaRef(a),
              !.Hash = <<>>]

\* the most intentions a run holds
MaxObjects == 3

\* s[i].Clone(); the clone becomes the last element of s
DoClone(i) ==
    /\ i \in DOMAIN s
    /\ Len(s) < MaxObjects
    /\ heap' = IF s[i].Meta.isNil THEN heap
               ELSE Append(heap, heap[s[i].Meta.ref])
    /\ s' = Append(s, Cloned(s[i], Len(heap) + 1))
    /\ ret' = [call |-> "Clone", i |-> i, recv |-> s[i],
               recvMeta |-> MetaValueIn(s[i], heap), val |-> Len(s) + 1]
    /\ calls' = calls \cup {<<"Clone", i>>}
    /\ UNCHANGED <<t, writes, ranged, edits, reqs>>

\* s[i].Meta[k] = v: an addition or a change (on a nil map Go panics)
MetaSet(i, k, v) ==
    /\ i \in DOMAIN s
    /\ ~s[i].Meta.isNil
    /\ edits < MaxEdits
    /\ LET m == heap[s[i].Meta.ref]
       IN  heap' = [heap EXCEPT ![s[i].Meta.ref] =
                       [j \in DOMAIN m \cup {k} |-> IF j = k THEN v ELSE m[j]]]
    /\ ret' = [call |-> "MetaSet", i |-> i]
    /\ edits' = edits + 1
    /\ UNCHANGED <<s, t, calls, writes, ranged, reqs>>

\* delete(s[i].Meta, k)
MetaDelete(i, k) ==
    /\ i \in DOMAIN s
    /\ ~s[i].Meta.isNil
    /\ k \in DOMAIN heap[s[i].Meta.ref]
    /\ edits < MaxEdits
    /\ LET m == heap[s[i].Meta.ref]
       IN  heap' = [heap EXCEPT ![s[i].Meta.ref] =
                       [j \in DOMAIN m \ {k} |-> m[j]]]
    /\ ret' = [call |-> "MetaDelete", i |-> i]
    /\ edits' = edits + 1
    /\ UNCHANGED <<s, t, calls, writes, ranged, reqs>>

\* the maps an intention starts with
CloneMaps ==
    {MakeMeta({}).kv, MakeMeta({<<StrA, StrB>>}).kv,
     MakeMeta({<<StrA, StrB>>, <<StrB, StrA>>}).kv}

CloneIntentions(meta) ==
    {[NewIntention(StrA, IntentionDefaultNamespace, StrA,
                   IntentionDefaultNamespace, StrB, IntentionActionAllow)
        EXCEPT !.Meta = meta, !.Hash = h, !.Precedence = p, !.Description = d,
               !.RaftIndex = r] :
        h \in {<<>>, StaleHash}, p \in {0, 9}, d \in {StrEmpty, StrB},
        r \in {[CreateIndex |-> 0, ModifyIndex |-> 0],
               [CreateIndex |-> 1, ModifyIndex |-> 2]}}

InitClone ==
    /\ \/ /\ heap = <<>>
          /\ s \in [1..1 -> CloneIntentions(NilMetaRef)]
       \/ /\ heap \in [1..1 -> CloneMaps]
          /\ s \in [1..1 -> CloneIntentions(MetaRef(1))]
    /\ t = <<>>
    /\ calls = {}
    /\ ret = [call |-> "none"]
    /\ writes = <<>>
    /\ ranged = <<>>
    /\ edits = 0
    /\ reqs = <<>>

NextClone ==
    \/ \E i \in 1..MaxObjects : DoClone(i)
    \/ \E i \in 1..MaxObjects : \E k \in {StrA, StrB} : \E v \in {StrA, StrB} :
          MetaSet(i, k, v)
    \/ \E i \in 1..MaxObjects : \E k \in {StrA, StrB} : MetaDelete(i, k)

SpecClone == InitClone /\ [][NextClone]_vars

MetaEdits == {"MetaSet", "MetaDelete"}

\* C11: right after Clone the clone equals the original in every field but
\* Hash (its Meta holding the same pairs, nil for nil), its Hash is absent, and
\* the original is as it was, Hash and Meta included; from then on an
\* addition, change or deletion in the Meta of one intention leaves the Meta
\* of every other intention, the original's or a clone's, unchanged.
C11_CloneIsDeepCopy ==
    /\ [](ret.call = "Clone" =>
            LET orig == s[ret.i]
                clone == s[ret.val]
            IN  /\ \A f \in DOMAIN orig \ {"Hash", "Meta"} : clone[f] = orig[f]
                /\ MetaValueIn(clone, heap) = MetaValueIn(orig, heap)
                /\ clone.Hash = <<>>
                /\ orig = ret.recv
                /\ MetaValueIn(orig, heap) = ret.recvMeta)
    /\ [][(ret'.call \in MetaEdits /\ heap' # heap) =>
            \A j \in DOMAIN s :
               j # ret'.i => MetaValueIn(s'[j], heap') = MetaValueIn(s[j], heap)]_vars

\* a clone of an intention that holds a Hash and a Meta entry has had an
\* entry added to its Meta, and the original still holds its own
C11_Witness ==
    /\ ret.call = "MetaSet"
    /\ ret.i = 2
    /\ Len(s) = 2
    /\ <<"Clone", 1>> \in calls
    /\ s[1].Hash = StaleHash
    /\ s[2].Hash = <<>>
    /\ MetaValueIn(s[1], heap) = MakeMeta({<<StrA, StrB>>})
    /\ MetaValueIn(s[2], heap) = MakeMeta({<<StrA, StrB>>, <<StrB, StrB>>})

----------------------------------------------------------------------------
(* IntentionQueryRequest.CacheInfo *)

IntentionMatchSource == "source"
IntentionMatchDestination == "destination"

\* q.Match == nil
NilMatch == [isNil |-> TRUE, Type |-> "", Entries |-> <<>>]

\* hashstructure.Hash(q.Match, nil). The 64-bit hash is taken to be free of
\* collisions and is represented by what it was computed from, keeping the
\* way the library combines the parts: the fields of a struct are combined
\* without regard to order (a record), the elements of a slice in the order
\* of the slice (a sequence) unless the field carries the tag hash:"set" --
\* and the fields of IntentionQueryMatch carry no tags.
HashString(v) == <<"fnv", v>>

HashEntry(e) ==
    [Namespace |-> HashString(e.Namespace), Name |-> HashString(e.Name)]

HashSlice(entries) == [n \in DOMAIN entries |-> HashEntry(entries[n])]

HashMatch(m) ==
    [Type |-> HashString(m.Type), Entries |-> HashSlice(m.Entries)]

\* strconv.FormatUint(v, 16)
FormatUint16(v) == <<"hex", v>>

\* cache.RequestInfo{}
ZeroRequestInfo ==
    [Token |-> StrEmpty, Datacenter |-> StrEmpty, MinIndex |-> 0, Timeout |-> 0,
     Key |-> StrEmpty]

CacheInfo(q) ==
    IF q.Match.isNil THEN ZeroRequestInfo
    ELSE [Token |-> q.Token, Datacenter |-> q.Datacenter,
          MinIndex |-> q.MinQueryIndex, Timeout |-> q.MaxQueryTime,
          Key |-> FormatUint16(HashMatch(q.Match))]

DoCacheInfo(i) ==
    /\ i \in DOMAIN reqs
    /\ <<"CacheInfo", i, CacheInfo(reqs[i])>> \notin calls
    /\ calls' = calls \cup {<<"CacheInfo", i, CacheInfo(reqs[i])>>}
    /\ UNCHANGED <<s, t, ret, writes, ranged, edits, heap, reqs>>

----------------------------------------------------------------------------
(* Cache keys of two match requests *)

\* the most entries of a match query
MaxEntries == 2

MatchEntries ==
    {[Namespace |-> IntentionDefaultNamespace, Name |-> n] : n \in {StrA, StrB}}
    \cup {[Namespace |-> StrA, Name |-> StrA]}

QueryMatches ==
    {NilMatch}
    \cup UNION {[isNil : {FALSE},
                 Type : {IntentionMatchSource, IntentionMatchDestination},
                 Entries : [1..len -> MatchEntries]] : len \in 0..MaxEntries}

QueryRequests ==
    {[Datacenter |-> StrA, IntentionID |-> StrEmpty, Match |-> m,
      Token |-> StrB, MinQueryIndex |-> 1, MaxQueryTime |-> 2] : m \in QueryMatches}

InitCache ==
    /\ reqs \in [1..2 -> QueryRequests]
    /\ s = <<>>
    /\ t = <<>>
    /\ calls = {}
    /\ ret = [call |-> "none"]
    /\ writes = <<>>
    /\ ranged = <<>>
    /\ edits = 0
    /\ heap = <<>>

NextCache == \E i \in 1..2 : DoCacheInfo(i)

SpecCache == InitCache /\ [][NextCache]_vars

\* the RequestInfo values CacheInfo has returned for reqs[i]
InfosOf(i) == {c[3] : c \in {d \in calls : d[1] = "CacheInfo" /\ d[2] = i}}

EntrySet(m) == {m.Entries[n] : n \in DOMAIN m.Entries}

\* the same Type and the same entries, in some order
SameEntriesAnyOrder(m1, m2) ==
    /\ ~m1.isNil /\ ~m2.isNil
    /\ m1.Type = m2.Type
    /\ Len(m1.Entries) = Len(m2.Entries)
    /\ EntrySet(m1) = EntrySet(m2)

\* C12 as claimed: two requests whose Match has the same Type and the same
\* set of (Namespace, Name) entries, listed in whatever order, get the same
\* Key from CacheInfo; a request with no Match gets an empty Key.
C12_Original ==
    /\ \A i \in DOMAIN reqs : \A a \in InfosOf(i) :
          reqs[i].Match.isNil => a.Key = StrEmpty
    /\ \A i, j \in DOMAIN reqs : \A a \in InfosOf(i) : \A b \in InfosOf(j) :
          SameEntriesAnyOrder(reqs[i].Match, reqs[j].Match) => a.Key = b.Key

\* what the code keeps of C12: the Key is a function of the Match as listed
\* (same Type, same entries in the same order give the same Key, and only
\* they do), and a request with no Match gets an empty Key
C12_KeyFollowsListing ==
    /\ \A i \in DOMAIN reqs : \A a \in InfosOf(i) :
          reqs[i].Match.isNil <=> a.Key = StrEmpty
    /\ \A i, j \in DOMAIN reqs : \A a \in InfosOf(i) : \A b \in InfosOf(j) :
          (~reqs[i].Match.isNil /\ ~reqs[j].Match.isNil) =>
             ((a.Key = b.Key) <=> (reqs[i].Match = reqs[j].Match))

\* the same two entries in opposite orders, with different keys
C12_OrderChangesKey ==
    /\ SameEntriesAnyOrder(reqs[1].Match, reqs[2].Match)
    /\ Len(reqs[1].Match.Entries) = 2
    /\ reqs[1].Match.Entries[1] = reqs[2].Match.Entries[2]
    /\ reqs[1].Match.Entries[1] # reqs[1].Match.Entries[2]
    /\ \E a \in InfosOf(1) : \E b \in InfosOf(2) : a.Key # b.Key

----------------------------------------------------------------------------
(* Equal precedence among the matches of a check query *)

TieNames == {WildcardSpecifier, IntentionDefaultNamespace, StrA}

TieIntentions(id, action) ==
    {NewIntention(id, sns, sn, dns, dn, action) :
        sns \in TieNames, sn \in TieNames, dns \in TieNames, dn \in TieNames}

\* exact queries from a in the default namespace to a in either namespace
TieQueries ==
    {[SourceNS |-> IntentionDefaultNamespace, SourceName |-> StrA,
      DestinationNS |-> dns, DestinationName |-> StrA,
      SourceType |-> IntentionSourceConsul] :
        dns \in {IntentionDefaultNamespace, StrA}}

\* an allow and a deny, as created: Precedence not yet assigned
InitTie ==
    /\ s \in {<<x, y>> : x \in TieIntentions(StrA, IntentionActionAllow),
                         y \in TieIntentions(StrB, IntentionActionDeny)}
    /\ t = <<>>
    /\ calls = {}
    /\ ret = [call |-> "none"]
    /\ writes = <<>>
    /\ ranged = <<>>
    /\ edits = 0
    /\ heap = <<>>
    /\ reqs = <<>>

NextTie ==
    \/ \E i \in 1..2 : UpdatePrecedence(i)
    \/ \E q \in TieQueries : \E d \in BOOLEAN : DoCheck(q, d)

SpecTie == InitTie /\ [][NextTie]_vars

\* the decision of a check of query q on the snapshot list
Decision(list, q, defaultAllow) ==
    LET matched == Sort(Matching(list, q))
    IN  IF matched = <<>> THEN defaultAllow
        ELSE matched[1].Action = IntentionActionAllow

\* every intention of the snapshot passes Validate and carries the
\* Precedence assigned by UpdatePrecedence
AllValidatedAndUpdated == \A i \in DOMAIN s : Updated(i) /\ Validated(s[i])

\* C13: for an exact check query on intentions that pass Validate and carry
\* the Precedence assigned by UpdatePrecedence, two intentions that both match
\* the query and have equal Precedence have the same 4-tuple; hence, when the
\* 4-tuples of the set are pairwise distinct, the matching intentions have
\* pairwise distinct Precedence, and the sorted matches, their head and the
\* decision are the same for every arrival order of the set.
C13_TieBreakNeverDecides ==
    (ret.call = "Check" /\ AllValidatedAndUpdated) =>
       /\ \A x, y \in MatchSet :
             x.Precedence = y.Precedence => FourTuple(x) = FourTuple(y)
       /\ DistinctTuples(s) =>
             /\ \A i, j \in DOMAIN s :
                   (i # j /\ Matches(s[i], ret.query) /\ Matches(s[j], ret.query))
                      => s[i].Precedence # s[j].Precedence
             /\ \A p \in Orders(s) :
                   /\ Sort(Matching(p, ret.query)) = Sort(Matching(s, ret.query))
                   /\ Decision(p, ret.query, ret.defaultAllow)
                         = Decision(s, ret.query, ret.defaultAllow)
             /\ ret.matched = Sort(Matching(s, ret.query)) =>
                   \A p \in Orders(s) :
                      Decision(p, ret.query, ret.defaultAllow) = ret.val

\* an allow from (default, a) to (default, "*") that arrived before a deny
\* from anywhere to (default, a): both match the query, both passed Validate
\* and were given their Precedence, 6 and 7, and the check put the deny first
C13_Witness ==
    /\ ret.call = "Check"
    /\ AllValidatedAndUpdated
    /\ DistinctTuples(s)
    /\ FourTuple(s[1]) = <<IntentionDefaultNamespace, StrA,
                           IntentionDefaultNamespace, WildcardSpecifier>>
    /\ FourTuple(s[2]) = <<WildcardSpecifier, WildcardSpecifier,
                           IntentionDefaultNamespace, StrA>>
    /\ s[1].Precedence = 6 /\ s[2].Precedence = 7
    /\ MatchSet = {s[1], s[2]}
    /\ ret.matched = Sort(Matching(s, ret.query))
    /\ ret.matched = <<s[2], s[1]>>
    /\ ret.val = FALSE

\* two matching intentions of equal Precedence: they have the same 4-tuple,
\* and the arrival order decides between the allow and the deny
C13_WitnessTie ==
    /\ ret.call = "Check"
    /\ AllValidatedAndUpdated
    /\ MatchSet = {s[1], s[2]}
    /\ s[1].Precedence = s[2].Precedence
    /\ FourTuple(s[1]) = FourTuple(s[2])
    /\ \E p \in Orders(s) :
          Decision(p, ret.query, ret.defaultAllow)
             # Decision(s, ret.query, ret.defaultAllow)

====
